---- MODULE Spec2Model ----
(***************************************************************************)
(* Model of vroy/pile: package gitver (identity cache, template formatter, *)
(* version resolver) and package core (Project.Load).                      *)
(*                                                                         *)
(* Strings are TLA+ strings; "nil" stands for Go's nil error.  A host user *)
(* name is a sequence of one-character strings so that the sanitising      *)
(* regexp can be applied character by character.  A template string is a   *)
(* sequence of lexical items of text/template (text, {{.F}}, {{if .F}},    *)
(* {{end}}); the empty template string is the empty sequence.  A path is a *)
(* sequence of path components.                                            *)
(***************************************************************************)
EXTENDS Integers, Sequences, FiniteSets

VARIABLES
    sanitizedUserCache, \* gitver.sanitizedUserCache: once state, response, err
    userCalls,          \* results of the calls of user.Current so far, in order
    pc,                 \* position of each concurrent caller of currentUser
    local,              \* the closure's local currentUser of each caller
    ret,                \* what each caller's last currentUser call returned
    returns,            \* every (value, error) pair returned by currentUser so far
    ncalls,             \* number of currentUser calls each caller has started
    fmt,                \* one use of the template formatter: input, operation, outcome
    projects,           \* the core.Project values, by project number
    loadRet,            \* what Load returned for each project ("none": not called yet)
    calls,              \* collaborator calls each project's Load made, in order
    versioned,          \* the path list each project's Load handed to gitver.New
    fs,                 \* per directory: state of pile.yml and presence of Dockerfile
    defaults,           \* the defaults handed to Load
    vcs,                \* state of the working tree as the git helpers report it
    mergeErr,           \* the error mergo.Merge returns ("nil": the merge succeeds)
    loadedAt            \* when each project's Load ran: the working tree, the rank

vars == <<sanitizedUserCache, userCalls, pc, local, ret, returns, ncalls, fmt,
          projects, loadRet, calls, versioned, fs, defaults, vcs, mergeErr, loadedAt>>

-----------------------------------------------------------------------------
(* Bounds *)

NumCallers == 3
MaxCalls == 2

Callers == 1..NumCallers

NoError == "nil"

-----------------------------------------------------------------------------
(* Identity cache: gitver.currentUser *)

AlphaNumeric ==
    {"a","b","c","d","e","f","g","h","i","j","k","l","m",
     "n","o","p","q","r","s","t","u","v","w","x","y","z",
     "A","B","C","D","E","F","G","H","I","J","K","L","M",
     "N","O","P","Q","R","S","T","U","V","W","X","Y","Z",
     "0","1","2","3","4","5","6","7","8","9"}

\* alphaNumericPattern.ReplaceAllString(name, "") for the pattern [^a-zA-Z0-9]+
RECURSIVE ReplaceAllString(_)
ReplaceAllString(name) ==
    IF name = <<>> THEN ""
    ELSE (IF Head(name) \in AlphaNumeric THEN Head(name) ELSE "")
            \o ReplaceAllString(Tail(name))

\* What the host may answer to user.Current()
UserNames == { <<"b","o","b">>, <<"j",".","d","-","2">>, <<"_">> }

OsUserResults ==
    [Username : UserNames, err : {NoError}]
        \cup [Username : {<<>>}, err : {"ErrUserLookup", "ErrNoSuchUser"}]

\* var sanitizedUserCache = &cachedStringResponse{}
EmptyCache == [done |-> FALSE, m |-> 0, response |-> "", err |-> NoError]

\* Closure, first half: currentUser, sanitizedUserCache.err = user.Current()
ClosureLookup(cache, os) == [cache EXCEPT !.err = os.err]

\* Closure, second half: compile the pattern, sanitise, clear the error
ClosureSanitize(cache, username) ==
    [cache EXCEPT !.response = ReplaceAllString(username), !.err = NoError]

\* return sanitizedUserCache.response, sanitizedUserCache.err
CachedResult(cache) == [value |-> cache.response, err |-> cache.err]

UserUnchanged == UNCHANGED <<sanitizedUserCache, userCalls, pc, local, ret, returns, ncalls>>
LoadUnchanged ==
    UNCHANGED <<projects, loadRet, calls, versioned, fs, defaults, vcs, mergeErr, loadedAt>>
FmtUnchanged == UNCHANGED fmt /\ LoadUnchanged

\* currentUser running its closure directly instead of through Do
CallDoNoOnce(c) ==
    /\ pc[c] = "idle"
    /\ ncalls[c] < MaxCalls
    /\ ncalls' = [ncalls EXCEPT ![c] = @ + 1]
    /\ pc' = [pc EXCEPT ![c] = "lookup"]
    /\ UNCHANGED <<sanitizedUserCache, userCalls, local, ret, returns>>
    /\ FmtUnchanged

\* A caller enters currentUser and calls sanitizedUserCache.Do(closure)
CallDo(c) ==
    /\ pc[c] = "idle"
    /\ ncalls[c] < MaxCalls
    /\ ncalls' = [ncalls EXCEPT ![c] = @ + 1]
    /\ pc' = [pc EXCEPT ![c] = "do"]
    /\ UNCHANGED <<sanitizedUserCache, userCalls, local, ret, returns>>
    /\ FmtUnchanged

\* Once.Do fast path: done already set, nothing to run
DoFast(c) ==
    /\ pc[c] = "do"
    /\ pc' = [pc EXCEPT ![c] = IF sanitizedUserCache.done THEN "return" ELSE "lock"]
    /\ UNCHANGED <<sanitizedUserCache, userCalls, local, ret, returns, ncalls>>
    /\ FmtUnchanged

\* Once.Do slow path: take the mutex, then look at done again
DoLock(c) ==
    /\ pc[c] = "lock"
    /\ sanitizedUserCache.m = 0
    /\ sanitizedUserCache' = [sanitizedUserCache EXCEPT !.m = c]
    /\ pc' = [pc EXCEPT ![c] = "locked"]
    /\ UNCHANGED <<userCalls, local, ret, returns, ncalls>>
    /\ FmtUnchanged

DoRecheck(c) ==
    /\ pc[c] = "locked"
    /\ IF sanitizedUserCache.done
       THEN /\ sanitizedUserCache' = [sanitizedUserCache EXCEPT !.m = 0]
            /\ pc' = [pc EXCEPT ![c] = "return"]
       ELSE /\ pc' = [pc EXCEPT ![c] = "lookup"]
            /\ UNCHANGED sanitizedUserCache
    /\ UNCHANGED <<userCalls, local, ret, returns, ncalls>>
    /\ FmtUnchanged

\* Lookup without the early return of the closure after a failed user.Current()
LookupNoEarlyReturn(c) ==
    /\ pc[c] = "lookup"
    /\ \E os \in OsUserResults :
        /\ userCalls' = Append(userCalls, os)
        /\ sanitizedUserCache' = ClosureLookup(sanitizedUserCache, os)
        /\ local' = [local EXCEPT ![c] = os.Username]
        /\ pc' = [pc EXCEPT ![c] = "sanitize"]
    /\ UNCHANGED <<ret, returns, ncalls>>
    /\ FmtUnchanged

\* The closure calls user.Current() and returns early when it failed
Lookup(c) ==
    /\ pc[c] = "lookup"
    /\ \E os \in OsUserResults :
        /\ userCalls' = Append(userCalls, os)
        /\ sanitizedUserCache' = ClosureLookup(sanitizedUserCache, os)
        /\ local' = [local EXCEPT ![c] = os.Username]
        /\ pc' = [pc EXCEPT ![c] = IF os.err # NoError THEN "closed" ELSE "sanitize"]
    /\ UNCHANGED <<ret, returns, ncalls>>
    /\ FmtUnchanged

\* The closure stores the sanitised name
Sanitize(c) ==
    /\ pc[c] = "sanitize"
    /\ sanitizedUserCache' = ClosureSanitize(sanitizedUserCache, local[c])
    /\ pc' = [pc EXCEPT ![c] = "closed"]
    /\ UNCHANGED <<userCalls, local, ret, returns, ncalls>>
    /\ FmtUnchanged

\* Once.Do after the closure returned: set done, release the mutex
DoFinish(c) ==
    /\ pc[c] = "closed"
    /\ sanitizedUserCache.m = c
    /\ sanitizedUserCache' = [sanitizedUserCache EXCEPT !.done = TRUE, !.m = 0]
    /\ pc' = [pc EXCEPT ![c] = "return"]
    /\ UNCHANGED <<userCalls, local, ret, returns, ncalls>>
    /\ FmtUnchanged

\* currentUser returns the cached fields
Return(c) ==
    /\ pc[c] = "return"
    /\ ret' = [ret EXCEPT ![c] = CachedResult(sanitizedUserCache)]
    /\ returns' = returns \cup {CachedResult(sanitizedUserCache)}
    /\ pc' = [pc EXCEPT ![c] = "idle"]
    /\ UNCHANGED <<sanitizedUserCache, userCalls, local, ncalls>>
    /\ FmtUnchanged

-----------------------------------------------------------------------------
(* Template formatter: GitVersion.FormatTemplate, GitVersion.String *)

Text(s) == [kind |-> "text", arg |-> s]
Field(f) == [kind |-> "field", arg |-> f]
If(f) == [kind |-> "if", arg |-> f]
End == [kind |-> "end", arg |-> ""]

\* A default template that marks a dirty tree with the branch instead of the user
DefaultTemplateBranch ==
    << If("Dirty"), Text("dirty-"), Field("Branch"), Text("-"), End,
       Field("Commits"), Text("."), Field("Hash") >>

\* A default template whose {{if}} is never closed
DefaultTemplateUnclosed ==
    << If("Dirty"), Text("dirty-"), Field("User"), Text("-"),
       Field("Commits"), Text("."), Field("Hash") >>

\* {{if .Dirty}}dirty-{{.User}}-{{end}}{{.Commits}}.{{.Hash}}
DefaultTemplate ==
    << If("Dirty"), Text("dirty-"), Field("User"), Text("-"), End,
       Field("Commits"), Text("."), Field("Hash") >>

\* The exported fields of type GitVersion
GitVersionFields == {"Branch", "Commits", "Hash", "Dirty", "User"}

\* text/template writes the value of a field in its default format
ShowValue(ver, f) ==
    CASE f = "Branch" -> ver.Branch
      [] f = "Commits" -> ver.Commits
      [] f = "Hash" -> ver.Hash
      [] f = "User" -> ver.User
      [] f = "Dirty" -> IF ver.Dirty THEN "true" ELSE "false"

\* text/template's truth of a field: a bool is itself, a string is true when not empty
IsTrue(ver, f) ==
    CASE f = "Branch" -> ver.Branch # ""
      [] f = "Commits" -> ver.Commits # ""
      [] f = "Hash" -> ver.Hash # ""
      [] f = "User" -> ver.User # ""
      [] f = "Dirty" -> ver.Dirty

\* template.New("Version Template").Parse(arg): every {{if}} needs its {{end}}
RECURSIVE ParseFrom(_, _)
ParseFrom(items, depth) ==
    IF items = <<>>
    THEN (IF depth = 0 THEN NoError ELSE "ErrUnexpectedEOF")
    ELSE CASE Head(items).kind = "if" -> ParseFrom(Tail(items), depth + 1)
           [] Head(items).kind = "end" ->
                IF depth = 0 THEN "ErrUnexpectedEnd"
                ELSE ParseFrom(Tail(items), depth - 1)
           [] OTHER -> ParseFrom(Tail(items), depth)

Parse(arg) == ParseFrom(arg, 0)

\* versionTemplate.Execute(&builder, ver) on a parsed template.  stack holds,
\* for each open {{if}}, whether its body is being rendered; a field the
\* record does not have is an error only where it is evaluated.
RECURSIVE ExecuteFrom(_, _, _, _)
ExecuteFrom(items, ver, stack, out) ==
    IF items = <<>> THEN [out |-> out, err |-> NoError]
    ELSE LET item == Head(items)
             active == \A i \in 1..Len(stack) : stack[i]
         IN CASE item.kind = "text" ->
                    ExecuteFrom(Tail(items), ver, stack,
                                IF active THEN out \o item.arg ELSE out)
              [] item.kind = "field" ->
                    IF ~active THEN ExecuteFrom(Tail(items), ver, stack, out)
                    ELSE IF item.arg \notin GitVersionFields
                    THEN [out |-> out, err |-> "ErrCantEvaluateField"]
                    ELSE ExecuteFrom(Tail(items), ver, stack, out \o ShowValue(ver, item.arg))
              [] item.kind = "if" ->
                    IF ~active THEN ExecuteFrom(Tail(items), ver, Append(stack, FALSE), out)
                    ELSE IF item.arg \notin GitVersionFields
                    THEN [out |-> out, err |-> "ErrCantEvaluateField"]
                    ELSE ExecuteFrom(Tail(items), ver,
                                     Append(stack, IsTrue(ver, item.arg)), out)
              [] item.kind = "end" ->
                    ExecuteFrom(Tail(items), ver, SubSeq(stack, 1, Len(stack) - 1), out)

Execute(arg, ver) == ExecuteFrom(arg, ver, <<>>, "")

\* func (ver *GitVersion) FormatTemplate(arg string) (string, error):
\* after a failed Execute it returns the err of Parse, which is nil there
FormatTemplate(ver, arg) ==
    LET err == Parse(arg)
    IN IF err # NoError THEN [result |-> "", err |-> err]
       ELSE LET run == Execute(arg, ver)
            IN IF run.err # NoError
               THEN [result |-> "", err |-> err]
               ELSE [result |-> run.out, err |-> NoError]

\* func (ver *GitVersion) String() string: log.Fatalf on an error
String(ver) ==
    LET r == FormatTemplate(ver, DefaultTemplate)
    IN IF r.err # NoError
       THEN [result |-> "", fatal |-> TRUE]
       ELSE [result |-> r.result, fatal |-> FALSE]

\* Version records and template strings the formatter is applied to
Versions ==
    [Branch : {"main"}, Commits : {"5", "12"}, Hash : {"abcdef1", "0a1b2c3"},
     Dirty : BOOLEAN, User : {ReplaceAllString(n) : n \in UserNames}]

Templates ==
    { DefaultTemplate,
      <<>>,
      << Field("Branch"), Text("-"), Field("Hash") >>,
      << If("Dirty"), If("User"), Field("User"), Text("+"), End, End, Field("Dirty") >>,
      << Field("Version") >>,
      << If("Dirty"), Field("Author"), End, Field("Commits") >>,
      << If("Dirty"), Text("dirty") >>,
      << Text("v"), End >> }

DoFormatTemplate ==
    /\ fmt.op = "none"
    /\ LET r == FormatTemplate(fmt.ver, fmt.arg)
       IN fmt' = [fmt EXCEPT !.op = "FormatTemplate", !.result = r.result, !.err = r.err]
    /\ UserUnchanged
    /\ LoadUnchanged

DoString ==
    /\ fmt.op = "none"
    /\ LET r == String(fmt.ver)
       IN fmt' = [fmt EXCEPT !.op = "String", !.result = r.result, !.fatal = r.fatal]
    /\ UserUnchanged
    /\ LoadUnchanged

-----------------------------------------------------------------------------
(* Version resolver: gitver.New, GitVersion.ForProjects *)

\* currentUser looking the user up on every call
currentUserNoCache(cache, os) ==
    LET looked == ClosureLookup(cache, os)
        closed == IF os.err # NoError THEN looked
                  ELSE ClosureSanitize(looked, os.Username)
    IN [cache |-> closed, lookups |-> <<os>>, result |-> CachedResult(closed)]

\* currentUser run by one goroutine without interleaving: Do runs the closure
\* unless done is set, then the cached fields are returned.  lookups lists
\* the answers user.Current gave in this call (none or one).
currentUser(cache, os) ==
    IF cache.done
    THEN [cache |-> cache, lookups |-> <<>>, result |-> CachedResult(cache)]
    ELSE LET looked == ClosureLookup(cache, os)
             closed == IF os.err # NoError THEN looked
                       ELSE ClosureSanitize(looked, os.Username)
             after == [closed EXCEPT !.done = TRUE]
         IN [cache |-> after, lookups |-> <<os>>, result |-> CachedResult(after)]

\* The git helpers with the dirty check moved to the front
GitCallsDirtyFirst ==
    << "checkIsDirty", "GitProjectPaths", "GitBranch", "countCommits", "headCommit",
       "revParseShort" >>

\* The git helpers in the order ForProjects calls them
GitCalls ==
    << "GitProjectPaths", "GitBranch", "countCommits", "headCommit",
       "revParseShort", "checkIsDirty" >>

\* git rev-parse --short: the first seven characters of the revision
RECURSIVE Concat(_)
Concat(chars) == IF chars = <<>> THEN "" ELSE Head(chars) \o Concat(Tail(chars))

revParseShort(rev) == Concat(SubSeq(rev, 1, 7))

\* func (ver *GitVersion) ForProjects(projects []string) error.  tree.failAt
\* is the number of the git helper that fails (0: none); the helpers before
\* it have filled their fields, the ones after it are not called.
ForProjects(paths, tree, cache, os) ==
    LET made == IF tree.failAt = 0 THEN GitCalls ELSE SubSeq(GitCalls, 1, tree.failAt)
        ok(k) == tree.failAt = 0 \/ k < tree.failAt
        gitErr == IF tree.failAt = 0 THEN NoError ELSE "Err" \o GitCalls[tree.failAt]
        user == IF gitErr = NoError THEN currentUser(cache, os)
                ELSE [cache |-> cache, lookups |-> <<>>, result |-> [value |-> "", err |-> NoError]]
    IN [ver |-> [Branch |-> IF ok(2) THEN tree.Branch ELSE "",
                 Commits |-> IF ok(3) THEN tree.Commits ELSE "",
                 Hash |-> IF ok(5) THEN revParseShort(tree.Rev) ELSE "",
                 Dirty |-> IF ok(6) THEN tree.Dirty ELSE FALSE,
                 User |-> user.result.value],
        err |-> IF gitErr # NoError THEN gitErr ELSE user.result.err,
        calls |-> IF gitErr = NoError THEN Append(made, "currentUser") ELSE made,
        cache |-> user.cache,
        lookups |-> user.lookups]

\* gitver.New(projects): a fresh GitVersion filled by ForProjects, or the error.
\* A *GitVersion is a sequence: empty for nil, else the record pointed to.
New(paths, tree, cache, os) ==
    LET r == ForProjects(paths, tree, cache, os)
    IN [r EXCEPT !.ver = IF r.err # NoError THEN <<>> ELSE <<r.ver>>]

-----------------------------------------------------------------------------
(* Project configuration: core.ProjectConfig, core.Project, Project.Load *)

\* filepath.Clean on an absolute path given as components
RECURSIVE CleanOnto(_, _)
CleanOnto(done, rest) ==
    IF rest = <<>> THEN done
    ELSE CASE Head(rest) = "." -> CleanOnto(done, Tail(rest))
           [] Head(rest) = ".." ->
                CleanOnto(IF done = <<>> THEN <<>> ELSE SubSeq(done, 1, Len(done) - 1),
                          Tail(rest))
           [] OTHER -> CleanOnto(Append(done, Head(rest)), Tail(rest))

\* filepath.Join(dir, rel)
Join(dir, rel) == CleanOnto(<<>>, dir \o rel)

\* filepath.Base(dir)
Base(dir) == IF dir = <<>> THEN "/" ELSE dir[Len(dir)]

ConfigFields ==
    {"Name", "ContextDir", "ImagePrefix", "VersionPrefix", "VersionTemplate",
     "DependsOn", "Registry"}

\* The zero value of ProjectConfig
ZeroConfig ==
    [Name |-> "", ContextDir |-> <<>>, ImagePrefix |-> "", VersionPrefix |-> "",
     VersionTemplate |-> <<>>, DependsOn |-> <<>>, Registry |-> ""]

ZeroProject(dir) ==
    [Dir |-> dir, Config |-> ZeroConfig, CanBuild |-> FALSE, GitVersion |-> <<>>,
     Repository |-> "", Tag |-> "", Image |-> "", ImageWithRegistry |-> ""]

\* reflect's zero test that mergo applies to a destination field
IsZero(f, v) == v = ZeroConfig[f]

\* yaml.Unmarshal(configFile, &project.Config): the keys present in the
\* document overwrite their fields, the other fields are left as they are
Unmarshal(doc, config) ==
    [f \in ConfigFields |-> IF f \in doc.keys THEN doc.values[f] ELSE config[f]]

\* mergo.Merge(&project.Config, defaults): a field of the destination takes
\* the value of the source when it holds its zero value
Merge(dst, src) ==
    [f \in ConfigFields |-> IF IsZero(f, dst[f]) THEN src[f] ELSE dst[f]]

\* registry.Config.RegistryPrefix()
RegistryPrefix(registry) == IF registry = "" THEN "" ELSE registry \o "/"

\* func (project *Project) ContextDir() string
ContextDir(project) ==
    IF project.Config.ContextDir # <<>>
    THEN Join(project.Dir, project.Config.ContextDir)
    ELSE project.Dir

RECURSIVE JoinAll(_, _)
JoinAll(dir, deps) ==
    IF deps = <<>> THEN <<>>
    ELSE <<Join(dir, Head(deps))>> \o JoinAll(dir, Tail(deps))

\* versionedPaths listing the dependencies before the context directory
versionedPathsDepsFirst(project) ==
    LET contextDir == ContextDir(project)
    IN <<project.Dir>>
         \o JoinAll(project.Dir, project.Config.DependsOn)
         \o (IF project.Dir # contextDir THEN <<contextDir>> ELSE <<>>)

\* func (project *Project) versionedPaths() []string
versionedPaths(project) ==
    LET contextDir == ContextDir(project)
    IN <<project.Dir>>
         \o (IF project.Dir # contextDir THEN <<contextDir>> ELSE <<>>)
         \o JoinAll(project.Dir, project.Config.DependsOn)

\* Load, version prefix: if VersionPrefix != "" { Tag = VersionPrefix + Tag }
PrefixTag(project) ==
    IF project.Config.VersionPrefix # ""
    THEN [project EXCEPT !.Tag = project.Config.VersionPrefix \o project.Tag]
    ELSE project

\* Image names that leave the image prefix out of the repository
ImageNamesNoPrefix(project) ==
    LET repository == project.Config.Name
        image == repository \o ":" \o project.Tag
    IN [project EXCEPT !.Repository = repository, !.Image = image,
                       !.ImageWithRegistry =
                           RegistryPrefix(project.Config.Registry) \o image]

\* Load, image names: Repository, Image, ImageWithRegistry
ImageNames(project) ==
    LET repository == project.Config.ImagePrefix \o project.Config.Name
        image == repository \o ":" \o project.Tag
    IN [project EXCEPT !.Repository = repository, !.Image = image,
                       !.ImageWithRegistry =
                           RegistryPrefix(project.Config.Registry) \o image]

\* Load's outcome when nothing but the return happens
LoadReturns(project, err, cache) ==
    [project |-> project, err |-> err, calls |-> <<>>, paths |-> <<>>,
     cache |-> cache, lookups |-> <<>>]

\* LoadBuild going on to the image names after the resolver failed
LoadBuildKeepsGoing(project, dir, tree, cache, os) ==
    IF ~dir.dockerfile
    THEN LoadReturns([project EXCEPT !.CanBuild = FALSE], NoError, cache)
    ELSE LET p1 == [project EXCEPT !.CanBuild = TRUE]
             paths == versionedPaths(p1)
             new == New(paths, tree, cache, os)
             p2 == [p1 EXCEPT !.GitVersion = new.ver]
             out(p, err) == [project |-> p, err |-> err, calls |-> new.calls,
                             paths |-> paths, cache |-> new.cache,
                             lookups |-> new.lookups]
         IN IF new.err # NoError THEN out(ImageNames(PrefixTag(p2)), new.err)
            ELSE LET tag == FormatTemplate(p2.GitVersion[1], p2.Config.VersionTemplate)
                     p3 == [p2 EXCEPT !.Tag = tag.result]
                 IN IF tag.err # NoError THEN out(p3, tag.err)
                    ELSE out(ImageNames(PrefixTag(p3)), NoError)

\* LoadBuild setting CanBuild only once the version is resolved
LoadBuildLateFlag(project, dir, tree, cache, os) ==
    IF ~dir.dockerfile
    THEN LoadReturns([project EXCEPT !.CanBuild = FALSE], NoError, cache)
    ELSE LET paths == versionedPaths(project)
             new == New(paths, tree, cache, os)
             p2 == [project EXCEPT !.GitVersion = new.ver]
             out(p, err) == [project |-> p, err |-> err, calls |-> new.calls,
                             paths |-> paths, cache |-> new.cache,
                             lookups |-> new.lookups]
         IN IF new.err # NoError THEN out(p2, new.err)
            ELSE LET tag == FormatTemplate(p2.GitVersion[1], p2.Config.VersionTemplate)
                     p3 == [p2 EXCEPT !.Tag = tag.result, !.CanBuild = TRUE]
                 IN IF tag.err # NoError THEN out(p3, tag.err)
                    ELSE out(ImageNames(PrefixTag(p3)), NoError)

\* Load from the Dockerfile check on, the configuration being resolved
LoadBuild(project, dir, tree, cache, os) ==
    IF ~dir.dockerfile
    THEN LoadReturns([project EXCEPT !.CanBuild = FALSE], NoError, cache)
    ELSE LET p1 == [project EXCEPT !.CanBuild = TRUE]
             paths == versionedPaths(p1)
             new == New(paths, tree, cache, os)
             p2 == [p1 EXCEPT !.GitVersion = new.ver]
             out(p, err) == [project |-> p, err |-> err, calls |-> new.calls,
                             paths |-> paths, cache |-> new.cache,
                             lookups |-> new.lookups]
         IN IF new.err # NoError THEN out(p2, new.err)
            ELSE LET tag == FormatTemplate(p2.GitVersion[1], p2.Config.VersionTemplate)
                     p3 == [p2 EXCEPT !.Tag = tag.result]
                 IN IF tag.err # NoError THEN out(p3, tag.err)
                    ELSE out(ImageNames(PrefixTag(p3)), NoError)

\* The statement mergo.Merge(&project.Config, defaults): the error mergo
\* returns is dropped; a merge that fails has left the destination as it was
MergeDefaults(config, dflt, merr) ==
    IF merr # NoError THEN config ELSE Merge(config, dflt)

\* Load defaulting the name after the merge instead of before it
LoadNameAfterMerge(project, dflt, merr, dir, tree, cache, os) ==
    IF dir.config.state \in {"missing", "unreadable", "malformed"}
    THEN LoadReturns(project, NoError, cache)
    ELSE LET read == Unmarshal(dir.config.doc, project.Config)
             merged == MergeDefaults(read, dflt, merr)
             named == IF merged.Name = ""
                      THEN [merged EXCEPT !.Name = Base(project.Dir)]
                      ELSE merged
         IN LoadBuild([project EXCEPT !.Config = named], dir, tree, cache, os)

\* func (project *Project) Load(defaults *ProjectConfig) error
Load(project, dflt, merr, dir, tree, cache, os) ==
    IF dir.config.state \in {"missing", "unreadable", "malformed"}
    THEN LoadReturns(project, NoError, cache)
    ELSE LET read == Unmarshal(dir.config.doc, project.Config)
             named == IF read.Name = ""
                      THEN [read EXCEPT !.Name = Base(project.Dir)]
                      ELSE read
             merged == MergeDefaults(named, dflt, merr)
         IN LoadBuild([project EXCEPT !.Config = merged], dir, tree, cache, os)

\* One call of Load on a project that has not been loaded yet
LoadProject(p) ==
    /\ loadRet[p] = "none"
    /\ \E os \in OsUserResults :
        LET r == Load(projects[p], defaults, mergeErr, fs[projects[p].Dir], vcs,
                      sanitizedUserCache, os)
        IN /\ projects' = [projects EXCEPT ![p] = r.project]
           /\ loadRet' = [loadRet EXCEPT ![p] = r.err]
           /\ calls' = [calls EXCEPT ![p] = r.calls]
           /\ versioned' = [versioned EXCEPT ![p] = r.paths]
           /\ sanitizedUserCache' = r.cache
           /\ userCalls' = userCalls \o r.lookups
    /\ loadedAt' = [loadedAt EXCEPT ![p] =
            <<[tree |-> vcs,
               order |-> 1 + Cardinality({q \in DOMAIN projects : loadRet[q] # "none"})]>>]
    /\ UNCHANGED <<pc, local, ret, returns, ncalls, fmt, fs, defaults, vcs, mergeErr>>

\* Project directories, pile.yml documents, defaults and working trees
Dirs == { <<"src", "api">> }

Present(v) == [given |-> TRUE, v |-> v]
Absent(f) == [given |-> FALSE, v |-> ZeroConfig[f]]

DocChoices ==
    [Name : {Absent("Name"), Present("svc")},
     ContextDir : {Absent("ContextDir"), Present(<<".">>), Present(<<"docker">>)},
     ImagePrefix : {Absent("ImagePrefix"), Present(""), Present("acme/")},
     VersionPrefix : {Absent("VersionPrefix"), Present("v")},
     VersionTemplate :
        {Absent("VersionTemplate"),
         Present(<< Field("Branch"), Text("-"), Field("Hash") >>),
         Present(<< If("Dirty"), Field("Author"), End, Field("Commits") >>),
         Present(<< If("Dirty"), Text("dirty") >>)},
     DependsOn : {Absent("DependsOn"), Present(<< <<"..", "lib">> >>)},
     Registry : {Absent("Registry")}]

Docs ==
    { [keys |-> {f \in ConfigFields : c[f].given},
       values |-> [f \in ConfigFields |-> c[f].v]] : c \in DocChoices }

ConfigFiles ==
    [state : {"missing", "unreadable", "malformed"},
     doc : {[keys |-> {}, values |-> ZeroConfig]}]
        \cup [state : {"parsed"}, doc : Docs]

DirStates == [config : ConfigFiles, dockerfile : BOOLEAN]

DefaultConfigs ==
    [Name : {"", "base"}, ContextDir : {<<>>}, ImagePrefix : {"", "corp/"},
     VersionPrefix : {""}, VersionTemplate : {<<>>, DefaultTemplate},
     DependsOn : {<<>>}, Registry : {"hub.io"}]

WorkingTrees ==
    [failAt : 0..Len(GitCalls), Branch : {"main"}, Commits : {"5"},
     Rev : {<<"a","b","c","d","e","f","1","2","3","4">>}, Dirty : BOOLEAN]

\* Between two loads somebody commits, edits a file or breaks the repository
TreeChanges(trees) ==
    /\ \E tree \in trees \ {vcs} : vcs' = tree
    /\ UNCHANGED <<projects, loadRet, calls, versioned, fs, defaults, mergeErr, loadedAt>>
    /\ UserUnchanged
    /\ UNCHANGED fmt

\* Several projects, two of them in the same directory
Api == <<"src", "api">>
Web == <<"src", "web">>

DocOf(c) ==
    [keys |-> {f \in ConfigFields : c[f].given},
     values |-> [f \in ConfigFields |-> c[f].v]]

NoKeys == [f \in ConfigFields |-> Absent(f)]

ReloadDocs ==
    { DocOf(NoKeys),
      DocOf([NoKeys EXCEPT !.ImagePrefix = Present("acme/"), !.VersionPrefix = Present("v")]),
      DocOf([NoKeys EXCEPT !.VersionTemplate = Present(<< If("Dirty"), Text("dirty") >>)]) }

ReloadFiles ==
    { [d \in {Api, Web} |-> IF d = Api THEN api ELSE web] :
        api \in [config : [state : {"missing"}, doc : {DocOf(NoKeys)}]
                             \cup [state : {"parsed"}, doc : ReloadDocs],
                 dockerfile : BOOLEAN],
        web \in [config : [state : {"parsed"}, doc : {DocOf(NoKeys)}],
                 dockerfile : BOOLEAN] }

ReloadDefaults ==
    { ZeroConfig,
      [ZeroConfig EXCEPT !.ImagePrefix = "corp/", !.VersionTemplate = DefaultTemplate] }

ReloadTrees ==
    [failAt : {0, 4}, Branch : {"main"}, Commits : {"5"},
     Rev : {<<"a","b","c","d","e","f","1","2","3","4">>}, Dirty : {TRUE}]

MergeErrors == {NoError, "ErrMerge"}

\* Documents that differ in context_dir and depends_on
Lib == <<"..", "lib">>

PathDocs ==
    { DocOf([NoKeys EXCEPT !.ContextDir = c, !.DependsOn = d]) :
        c \in {Absent("ContextDir"), Present(<<".">>), Present(<<"docker">>), Present(Lib)},
        d \in {Absent("DependsOn"), Present(<<Lib>>), Present(<<Lib, <<"docker">>>>),
               Present(<< <<"docker">>, Lib>>), Present(<<Lib, Lib>>),
               Present(<< <<".">> >>)} }

PathFiles ==
    [Dirs -> [config : [state : {"missing"}, doc : {DocOf(NoKeys)}]
                          \cup [state : {"parsed"}, doc : PathDocs],
              dockerfile : BOOLEAN]]

PathDefaults == { ZeroConfig, [ZeroConfig EXCEPT !.DependsOn = << <<"..", "base">> >>] }

PathTrees ==
    [failAt : {0, 1}, Branch : {"main"}, Commits : {"5"},
     Rev : {<<"a","b","c","d","e","f","1","2","3","4">>}, Dirty : {TRUE}]

-----------------------------------------------------------------------------
(* Specifications *)

NoResult == [value |-> "", err |-> "none"]

UserIdle ==
    /\ sanitizedUserCache = EmptyCache
    /\ userCalls = <<>>
    /\ pc = [c \in Callers |-> "idle"]
    /\ local = [c \in Callers |-> <<>>]
    /\ ret = [c \in Callers |-> NoResult]
    /\ returns = {}
    /\ ncalls = [c \in Callers |-> 0]

FmtInputs(vs, ts) ==
    [op : {"none"}, ver : vs, arg : ts, result : {""}, err : {"none"}, fatal : {FALSE}]

FmtIdle ==
    fmt \in FmtInputs({[Branch |-> "", Commits |-> "", Hash |-> "", Dirty |-> FALSE,
                        User |-> ""]}, {<<>>})

NumProjects == 1
Projects == 1..NumProjects

\* Projects ps constructed as in dirOf, none loaded yet, in an environment
\* drawn from the files fss, the defaults cs, the trees ts, the merge errors ms
LoadInputsFor(ps, dirOf, fss, cs, ts, ms) ==
    /\ fs \in fss
    /\ defaults \in cs
    /\ vcs \in ts
    /\ mergeErr \in ms
    /\ projects \in dirOf
    /\ loadRet = [p \in ps |-> "none"]
    /\ calls = [p \in ps |-> <<>>]
    /\ versioned = [p \in ps |-> <<>>]
    /\ loadedAt = [p \in ps |-> <<>>]

LoadInputs(ds, cs, ts) ==
    LoadInputsFor(Projects, [Projects -> {ZeroProject(d) : d \in Dirs}],
                  [Dirs -> ds], cs, ts, {NoError})

LoadIdle ==
    LoadInputs({[config |-> [state |-> "missing", doc |-> [keys |-> {}, values |-> ZeroConfig]],
                 dockerfile |-> FALSE]},
               {ZeroConfig},
               {[failAt |-> 0, Branch |-> "", Commits |-> "", Rev |-> <<>>, Dirty |-> FALSE]})

InitUser == UserIdle /\ FmtIdle /\ LoadIdle

NextUser ==
    \E c \in Callers :
        \/ CallDo(c)
        \/ DoFast(c)
        \/ DoLock(c)
        \/ DoRecheck(c)
        \/ Lookup(c)
        \/ Sanitize(c)
        \/ DoFinish(c)
        \/ Return(c)

SpecUser == InitUser /\ [][NextUser]_vars

InitFmt == UserIdle /\ LoadIdle /\ fmt \in FmtInputs(Versions, Templates)

NextFmt == DoFormatTemplate \/ DoString

SpecFmt == InitFmt /\ [][NextFmt]_vars

InitLoad == UserIdle /\ FmtIdle /\ LoadInputs(DirStates, DefaultConfigs, WorkingTrees)

NextLoad == \E p \in DOMAIN projects : LoadProject(p)

SpecLoad == InitLoad /\ [][NextLoad]_vars

InitPaths ==
    /\ UserIdle
    /\ FmtIdle
    /\ LoadInputsFor(Projects, [Projects -> {ZeroProject(d) : d \in Dirs}],
                     PathFiles, PathDefaults, PathTrees, {NoError})

SpecPaths == InitPaths /\ [][NextLoad]_vars

NumReloads == 3
Reloads == 1..NumReloads

\* Every third project is the one in Web, the others are all in Api
ReloadProjects == [p \in Reloads |-> ZeroProject(IF p % 3 = 0 THEN Web ELSE Api)]

InitReload ==
    /\ UserIdle
    /\ FmtIdle
    /\ LoadInputsFor(Reloads, {ReloadProjects}, ReloadFiles, ReloadDefaults,
                     ReloadTrees, MergeErrors)

NextReload == NextLoad \/ TreeChanges(ReloadTrees)

SpecReload == InitReload /\ [][NextReload]_vars

-----------------------------------------------------------------------------
(* Identity cache claims, checked under SpecUser *)

\* What currentUser has to return given the answer of the one host lookup
ExpectedUser(os) ==
    IF os.err # NoError THEN [value |-> "", err |-> os.err]
    ELSE [value |-> ReplaceAllString(os.Username), err |-> NoError]

InClosure(c) == pc[c] \in {"lookup", "sanitize", "closed"}

\* C1: however many callers of currentUser overlap, user.Current is called at
\* most once, and exactly once before any caller returns; every caller
\* returns the same (value, error) pair, the one computed from that single
\* lookup; nobody returns while the lookup is still running.
C1_SingleLookup ==
    /\ Len(userCalls) <= 1
    /\ Cardinality({c \in Callers : InClosure(c)}) <= 1
    /\ returns # {} =>
        /\ Len(userCalls) = 1
        /\ sanitizedUserCache.done
        /\ \A c \in Callers : ~InClosure(c)
        /\ returns = {ExpectedUser(userCalls[1])}
    /\ \A c \in Callers : ret[c] # NoResult => ret[c] \in returns

\* Every caller is in its first call, one has returned the sanitised name,
\* another saw done unset and waits for the mutex, a third returned the same.
C1_Witness ==
    /\ \A c \in Callers : ncalls[c] = 1
    /\ \E c1, c2 \in Callers :
        /\ c1 # c2
        /\ ret[c1] = [value |-> "jd2", err |-> NoError]
        /\ pc[c1] = "idle"
        /\ pc[c2] = "lock"
    /\ Len(userCalls) = 1

\* C2: once the host lookup has failed, every currentUser call that returns,
\* first or later, overlapping or not, returns the empty value with that
\* same error, and user.Current is not called a second time.
C2_StickyError ==
    (userCalls # <<>> /\ userCalls[1].err # NoError) =>
        /\ Len(userCalls) = 1
        /\ returns \subseteq {[value |-> "", err |-> userCalls[1].err]}
        /\ \A c \in Callers :
             ret[c] # NoResult => ret[c] = [value |-> "", err |-> userCalls[1].err]

\* The lookup failed; one caller has finished its second call and another
\* its first, all with the cached error.
C2_Witness ==
    /\ userCalls # <<>>
    /\ userCalls[1].err = "ErrNoSuchUser"
    /\ \E c1, c2 \in Callers :
        /\ c1 # c2
        /\ ncalls[c1] = 2 /\ pc[c1] = "idle" /\ ret[c1].err = "ErrNoSuchUser"
        /\ ncalls[c2] = 1 /\ pc[c2] = "idle" /\ ret[c2].err = "ErrNoSuchUser"

-----------------------------------------------------------------------------
(* Template formatter claims, checked under SpecFmt *)

\* C3: FormatTemplate returns a non-nil error when the template does not
\* parse and when the parsed template fails to render; a render failure
\* never comes back as the empty string with a nil error.
C3_ErrorsPropagate ==
    fmt.op = "FormatTemplate" =>
        /\ Parse(fmt.arg) # NoError => fmt.err # NoError
        /\ (Parse(fmt.arg) = NoError /\ Execute(fmt.arg, fmt.ver).err # NoError)
              => fmt.err # NoError

\* C9: the default template renders "dirty-" User "-" Commits "." Hash for a
\* dirty record and Commits "." Hash for a clean one; Branch is not part of
\* the output.
C9_DefaultRendering ==
    (fmt.op = "String" \/ (fmt.op = "FormatTemplate" /\ fmt.arg = DefaultTemplate)) =>
        fmt.result =
            IF fmt.ver.Dirty
            THEN "dirty-" \o fmt.ver.User \o "-" \o fmt.ver.Commits \o "." \o fmt.ver.Hash
            ELSE fmt.ver.Commits \o "." \o fmt.ver.Hash

\* The spec's example: a dirty record of user bob rendered by String()
C9_Witness ==
    /\ fmt.op = "String"
    /\ fmt.ver.Dirty
    /\ fmt.ver.User = "bob"
    /\ fmt.result = "dirty-bob-5.abcdef1"

-----------------------------------------------------------------------------
(* Project.Load claims, checked under SpecLoad *)

Loaded(p) == loadRet[p] # "none"
DirOf(p) == fs[projects[p].Dir]
Descriptor(p) == DirOf(p).config
Undecoded(p) == Descriptor(p).state \in {"missing", "unreadable", "malformed"}

\* The configuration the spec's steps 1 to 4 give: the document's values
\* (none when it cannot be decoded), the name defaulted to the directory's
\* base name, and every field the document leaves out taken from defaults
SpecConfig(p) ==
    LET doc == IF Undecoded(p) THEN [keys |-> {}, values |-> ZeroConfig]
               ELSE Descriptor(p).doc
    IN [f \in ConfigFields |->
          IF f \in doc.keys THEN doc.values[f]
          ELSE IF f = "Name" THEN Base(projects[p].Dir)
          ELSE defaults[f]]

\* C4: with pile.yml missing, unreadable or unparsable, Load returns nil and
\* still runs the remaining steps on an empty configuration: the name is the
\* directory's base name, unset fields come from defaults, the Dockerfile is
\* checked and, if it is there, the version is resolved.
C4_UndecodedProceeds ==
    \A p \in Projects :
        (Loaded(p) /\ Undecoded(p)) =>
            /\ loadRet[p] = NoError
            /\ projects[p].Config.Name = Base(projects[p].Dir)
            /\ projects[p].Config = SpecConfig(p)
            /\ projects[p].CanBuild = DirOf(p).dockerfile
            /\ DirOf(p).dockerfile => calls[p] # <<>>

\* C5: after Load returned nil, CanBuild tells whether the directory has a
\* Dockerfile, whatever the state of pile.yml.
C5_CanBuildIffDockerfile ==
    \A p \in Projects :
        (Loaded(p) /\ loadRet[p] = NoError) =>
            (projects[p].CanBuild <=> DirOf(p).dockerfile)

\* C6: without a Dockerfile Load returns nil with CanBuild false, calls
\* neither a git helper nor the identity lookup, leaves GitVersion, Tag,
\* Repository, Image and ImageWithRegistry as constructed, and Config is
\* populated (it has its name).
C6_NonBuildableShortCircuit ==
    \A p \in Projects :
        (Loaded(p) /\ ~DirOf(p).dockerfile) =>
            /\ loadRet[p] = NoError
            /\ ~projects[p].CanBuild
            /\ calls[p] = <<>>
            /\ versioned[p] = <<>>
            /\ userCalls = <<>>
            /\ projects[p].GitVersion = <<>>
            /\ projects[p].Tag = ""
            /\ projects[p].Repository = ""
            /\ projects[p].Image = ""
            /\ projects[p].ImageWithRegistry = ""
            /\ projects[p].Config.Name # ""

\* C7: after the merge step every field the document sets has the
\* document's value, also when that value is empty, and every field it
\* leaves out has the value of defaults (the name, defaulted in the step
\* before, has the directory's base name).
C7_ExplicitValuesWin ==
    \A p \in Projects :
        (Loaded(p) /\ ~Undecoded(p)) =>
            \A f \in ConfigFields : projects[p].Config[f] = SpecConfig(p)[f]

\* The template the spec renders the tag with: the override, else the default
TagTemplate(config) ==
    IF config.VersionTemplate # <<>> THEN config.VersionTemplate ELSE DefaultTemplate

\* C8: for a buildable project whose version resolved and whose template
\* renders, Tag is VersionPrefix followed by the rendering of the version
\* under Config.VersionTemplate, or under the default template when neither
\* the project nor defaults set one.
C8_TagRendering ==
    \A p \in Projects :
        (/\ Loaded(p) /\ loadRet[p] = NoError /\ projects[p].CanBuild
         /\ Parse(TagTemplate(projects[p].Config)) = NoError
         /\ Execute(TagTemplate(projects[p].Config), projects[p].GitVersion[1]).err = NoError)
        => /\ projects[p].Tag =
                projects[p].Config.VersionPrefix
                    \o Execute(TagTemplate(projects[p].Config), projects[p].GitVersion[1]).out
           /\ projects[p].Tag \notin {"", projects[p].Config.VersionPrefix}

\* C10: when Load returned nil with CanBuild set, Repository is ImagePrefix
\* followed by Name, Image is Repository ":" Tag, and ImageWithRegistry is
\* RegistryPrefix() followed by Image, all taken from the merged Config.
C10_IdentityAssembly ==
    \A p \in Projects :
        (Loaded(p) /\ loadRet[p] = NoError /\ projects[p].CanBuild) =>
            /\ projects[p].Repository =
                    projects[p].Config.ImagePrefix \o projects[p].Config.Name
            /\ projects[p].Image = projects[p].Repository \o ":" \o projects[p].Tag
            /\ projects[p].ImageWithRegistry =
                    RegistryPrefix(projects[p].Config.Registry) \o projects[p].Image

\* A project named after its directory, with prefix and registry inherited
\* from defaults and a prefixed tag, has been loaded.
C10_Witness ==
    \E p \in Projects :
        /\ Loaded(p) /\ loadRet[p] = NoError /\ projects[p].CanBuild
        /\ projects[p].Repository = "corp/api"
        /\ projects[p].Image = "corp/api:v5.abcdef1"
        /\ projects[p].ImageWithRegistry = "hub.io/corp/api:v5.abcdef1"

-----------------------------------------------------------------------------
(* Project.Load claims, checked under SpecReload *)

Resolving(p) == Loaded(p) /\ ~Undecoded(p) /\ DirOf(p).dockerfile
TreeAt(p) == loadedAt[p][1].tree
NoNames(p) ==
    /\ projects[p].Repository = ""
    /\ projects[p].Image = ""
    /\ projects[p].ImageWithRegistry = ""

\* C11: when gitver.New reports an error (a git helper or the identity
\* lookup failed) or FormatTemplate reports one, Load returns that error and
\* stops: Repository, Image and ImageWithRegistry stay empty.  Projects that
\* have not been loaded are as constructed, whatever failed in the others.
C11_FailuresAreFatal ==
    /\ \A p \in DOMAIN projects :
        Resolving(p) =>
            /\ TreeAt(p).failAt # 0 =>
                  loadRet[p] = "Err" \o GitCalls[TreeAt(p).failAt] /\ NoNames(p)
            /\ (TreeAt(p).failAt = 0 /\ sanitizedUserCache.err # NoError) =>
                  loadRet[p] = sanitizedUserCache.err /\ NoNames(p)
            /\ (/\ TreeAt(p).failAt = 0
                /\ sanitizedUserCache.err = NoError
                /\ Parse(projects[p].Config.VersionTemplate) # NoError) =>
                  /\ loadRet[p] = Parse(projects[p].Config.VersionTemplate)
                  /\ NoNames(p)
            /\ loadRet[p] # NoError => NoNames(p)
    /\ \A q \in DOMAIN projects :
        ~Loaded(q) => projects[q] = ZeroProject(projects[q].Dir)

\* One project failed in the resolver, one in the same directory was loaded
\* before the repository broke, and the third has not been loaded yet.
C11_Witness ==
    \E p, q, r \in DOMAIN projects :
        /\ Resolving(p) /\ loadRet[p] = "ErrheadCommit"
        /\ Resolving(q) /\ loadRet[q] = NoError /\ projects[q].Image # ""
        /\ ~Loaded(r)

\* C12: when mergo.Merge fails, Load returns an error instead of going on
\* with the configuration that was not merged.
C12_MergeErrorSurfaced ==
    \A p \in DOMAIN projects :
        (Loaded(p) /\ ~Undecoded(p) /\ mergeErr # NoError) => loadRet[p] # NoError

\* C13: two loads of the same directory against the same working tree (the
\* files, the defaults and the host user do not change in a run) end with
\* the same Tag and the same Image, whatever was loaded in between.
C13_Idempotence ==
    \A p, q \in DOMAIN projects :
        (/\ Loaded(p) /\ Loaded(q)
         /\ projects[p].Dir = projects[q].Dir
         /\ TreeAt(p) = TreeAt(q))
        => /\ projects[p].Tag = projects[q].Tag
           /\ projects[p].Image = projects[q].Image
           /\ loadRet[p] = loadRet[q]

\* The same directory loaded first and third against one dirty tree, the
\* other directory loaded second; the first load looked the user up.
C13_Witness ==
    \E p, q, r \in DOMAIN projects :
        /\ p # q /\ projects[p].Dir = projects[q].Dir /\ projects[r].Dir # projects[p].Dir
        /\ Loaded(p) /\ Loaded(q) /\ Loaded(r)
        /\ loadedAt[p][1].order = 1 /\ loadedAt[r][1].order = 2 /\ loadedAt[q][1].order = 3
        /\ TreeAt(p) = TreeAt(q)
        /\ projects[q].Image = "corp/api:dirty-bob-5.abcdef1"
        /\ Len(userCalls) = 1

-----------------------------------------------------------------------------
(* Further Project.Load claims, checked under SpecLoad *)

\* C14: when pile.yml parses and gives no name, Config.Name is the base name
\* of the project directory, also when defaults.Name is not empty; a name
\* the document gives is kept.
C14_DefaultName ==
    \A p \in DOMAIN projects :
        (Loaded(p) /\ ~Undecoded(p)) =>
            LET doc == Descriptor(p).doc
                given == "Name" \in doc.keys /\ doc.values.Name # ""
            IN /\ ~given => projects[p].Config.Name = Base(projects[p].Dir)
               /\ given => projects[p].Config.Name = doc.values.Name

\* No name in pile.yml and a name in defaults: the directory's name wins.
C14_Witness ==
    \E p \in DOMAIN projects :
        /\ Loaded(p) /\ ~Undecoded(p)
        /\ "Name" \notin Descriptor(p).doc.keys
        /\ defaults.Name = "base"
        /\ projects[p].Config.Name = "api"

\* The collaborators of the resolver in the order the claim gives them:
\* resolveProjectPaths, currentBranch, commitDepth, headRevision, abbreviate,
\* isDirty, identity lookup
ResolverOrder ==
    << "GitProjectPaths", "GitBranch", "countCommits", "headCommit",
       "revParseShort", "checkIsDirty", "currentUser" >>

\* C16: ForProjects calls its collaborators in the fixed order, each once;
\* the first that fails ends it with that call's error, nothing after it is
\* called, and the identity lookup is not made when a git helper failed.
C16_CallOrder ==
    \A p \in DOMAIN projects :
        Resolving(p) =>
            LET k == TreeAt(p).failAt
            IN /\ k = 0 => calls[p] = ResolverOrder
               /\ k # 0 =>
                    /\ calls[p] = SubSeq(ResolverOrder, 1, k)
                    /\ loadRet[p] = "Err" \o ResolverOrder[k]
                    /\ userCalls = <<>>
                    /\ sanitizedUserCache = EmptyCache
               /\ (k = 0 /\ sanitizedUserCache.err # NoError) =>
                    loadRet[p] = sanitizedUserCache.err

\* headCommit failed: four helpers were called, no user was looked up.
C16_Witness ==
    \E p \in DOMAIN projects :
        /\ Resolving(p)
        /\ TreeAt(p).failAt = 4
        /\ Len(calls[p]) = 4
        /\ loadRet[p] = "ErrheadCommit"

\* C18: after Load returned nil, CanBuild set means GitVersion is not nil and
\* Repository, Image and ImageWithRegistry are not empty, and CanBuild unset
\* means GitVersion is nil and Tag and the three names are empty; after Load
\* returned an error CanBuild is set and Image is empty.
C18_PostLoadConsistency ==
    \A p \in DOMAIN projects :
        Loaded(p) =>
            /\ (loadRet[p] = NoError /\ projects[p].CanBuild) =>
                  /\ projects[p].GitVersion # <<>>
                  /\ projects[p].Repository # ""
                  /\ projects[p].Image # ""
                  /\ projects[p].ImageWithRegistry # ""
            /\ (loadRet[p] = NoError /\ ~projects[p].CanBuild) =>
                  /\ projects[p].GitVersion = <<>>
                  /\ projects[p].Tag = ""
                  /\ NoNames(p)
            /\ loadRet[p] # NoError =>
                  /\ projects[p].CanBuild
                  /\ projects[p].Image = ""

\* Load failed on the identity lookup: CanBuild is set, no image name.
C18_Witness ==
    \E p \in DOMAIN projects :
        /\ loadRet[p] = "ErrUserLookup"
        /\ projects[p].CanBuild
        /\ projects[p].Image = ""

-----------------------------------------------------------------------------
(* Template formatter claim, checked under SpecFmt *)

\* C17: String() never reaches log.Fatalf: it returns a string for every
\* version record, because FormatTemplate of the default template never
\* returns an error.
C17_StringNeverFatal ==
    /\ fmt.op = "String" =>
        /\ ~fmt.fatal
        /\ fmt.result = Execute(DefaultTemplate, fmt.ver).out
    /\ (fmt.op = "FormatTemplate" /\ fmt.arg = DefaultTemplate) => fmt.err = NoError

\* String() on a dirty record with an empty user
C17_Witness ==
    /\ fmt.op = "String"
    /\ fmt.ver.Dirty
    /\ fmt.ver.User = ""
    /\ fmt.result = "dirty--12.0a1b2c3"
    /\ ~fmt.fatal

-----------------------------------------------------------------------------
(* Path list claims, checked under SpecPaths *)

\* C15: the path list is the project directory, then the context directory
\* if it differs from the project directory, then every depends_on entry
\* joined to the project directory in the order declared; its length is
\* 1 + (1 if the context differs) + len(DependsOn).
C15_PathList ==
    \A p \in DOMAIN projects :
        Resolving(p) =>
            LET dir == projects[p].Dir
                config == projects[p].Config
                context == IF config.ContextDir = <<>> THEN dir
                           ELSE Join(dir, config.ContextDir)
                skip == IF context # dir THEN 2 ELSE 1
                paths == versioned[p]
            IN /\ Len(paths) = skip + Len(config.DependsOn)
               /\ paths[1] = dir
               /\ context # dir => paths[2] = context
               /\ \A i \in 1..Len(config.DependsOn) :
                    paths[skip + i] = Join(dir, config.DependsOn[i])

\* A context directory of its own and two dependencies, in declared order
C15_Witness ==
    \E p \in DOMAIN projects :
        /\ Resolving(p)
        /\ versioned[p] = << <<"src", "api">>, <<"src", "lib">>,
                             <<"src", "api", "docker">>, <<"src", "lib">> >>

\* C19: the path list Load hands to gitver.New holds every path at most once.
C19_NoDuplicatePaths ==
    \A p \in DOMAIN projects :
        Resolving(p) =>
            \A i, j \in 1..Len(versioned[p]) :
                i # j => versioned[p][i] # versioned[p][j]

====
